---- MODULE Spec2Model ----
(***************************************************************************)
(* A model of the manga downloader's chapter pipeline.                     *)
(*                                                                         *)
(* Spec        the work-queue protocol: the dispatcher publishes jobs and  *)
(*             sentinels, the broker hands them to the worker processes of *)
(*             src/src/bin/worker.rs, the workers republish completion     *)
(*             records and the completion tracker counts them.             *)
(* SpecReplies the same, with payloads that are no Chapter arriving on the *)
(*             reply queue.                                                *)
(* SpecChapter one download_chapter call: the page list is extracted and   *)
(*             the pages are fetched by download_file under                *)
(*             buffer_unordered(6).                                        *)
(*                                                                         *)
(* The broker (RabbitMQ) is not part of the repository.  It is modelled by *)
(* what the worker asks of it: a FIFO queue, at most PrefetchCount         *)
(* unacknowledged deliveries per consumer (basic_qos), and the requeueing  *)
(* of a consumer's unacknowledged deliveries when its connection closes.   *)
(* Acknowledging, publishing and cancelling are taken to succeed; the      *)
(* failures modelled are the ones the worker's code distinguishes: an      *)
(* error delivery (worker.rs:206) and an error returned by                 *)
(* download_chapter (worker.rs:188).                                       *)
(***************************************************************************)
EXTENDS Integers, Sequences, FiniteSets, Bags, TLC

\* ---------------------------------------------------------------- bounds
MaxChapters == 3
MaxThreads == 2
MaxMalformed == 1
MaxImgs == 7
MaxMissing == 1
MaxBadPages == 1
MaxAnchors == 2
MaxChapterNum == 10
MaxFrac == 1
MaxJobs == 6
MaxBatches == 4

\* ------------------------------------------------------ program constants
\* mutant of PrefetchCount: basic_qos is never called, so the broker sets no
\* limit on a consumer's unacknowledged deliveries
PrefetchCount_NoQos == MaxChapters + MaxThreads

\* recv_channel.basic_qos(1, ...)
PrefetchCount == 1
\* .buffer_unordered(6)
ConcurrencyLimit == 6

VARIABLES
    \* work-queue protocol
    numChapters,    \* c: the number of selected chapters
    numWorkers,     \* w: the number of worker processes spawned
    dpc,            \* the dispatcher's position
    pubJobs,        \* job messages published so far
    pubSentinels,   \* sentinel messages published so far
    workQ,          \* chapter_queue: payloads ready for delivery, FIFO
    replyQ,         \* chapter_completed_queue: payloads ready for delivery
    wpc,            \* each worker's position
    inbox,          \* deliveries pushed to a worker's consumer, not yet pulled
    cur,            \* the delivery a worker pulled with consumer.next()
    curAcked,       \* whether that delivery has been acknowledged
    dlFailed,       \* whether the worker's last download_chapter had failed pages
    sentinels,      \* sentinels each worker has acknowledged
    exitReason,     \* why a worker left its consume loop
    okDownloads,    \* bag of job payloads whose download_chapter returned Ok
    ackedJobs,      \* bag of job payloads acknowledged by workers
    completions,    \* bag of payloads workers published on the reply queue
    failedReported, \* whether a record was published for a download with failed pages
    tpc,            \* the completion tracker's position
    counter,        \* the tracker's progress counter
    repliesAcked,   \* reply deliveries the tracker acknowledged
    malformed,      \* malformed payloads put on the reply queue so far
    \* one download_chapter call
    dcpc,           \* the call's position
    imgs,           \* the img elements of the chapter page: has a url or not
    image_urls,     \* the extracted urls, each named by its img's position
    nextPage,       \* pages the stream has handed to buffer_unordered
    pstate,         \* each page's fetch: pending, inflight or done
    pstarts,        \* how often each page's download_file was started
    phttp,          \* what the HTTP exchange of each finished fetch gave
    pres,           \* what download_file returned for each finished fetch
    results,        \* the collected results, in completion order
    failed_pages,   \* the list download_chapter returns
    files,          \* the files of the chapter directory: name and data
    \* one fetch_chapters_urls call
    fpc,            \* the call's position
    anchors,        \* the anchors of the chapter list, in DOM order
    unmapped,       \* anchors the reversed iterator has not yet yielded
    chapter_list,   \* the Chapters collected so far
    \* one split_jobs call
    spc,            \* the call's position
    jobs_in,        \* the job list as it was passed in
    jobs,           \* the job list, drained by the call
    num_batches,    \* the requested number of batches
    split_n,        \* n, the length of the list at entry
    chunk_size,     \* n / num_batches
    extra_left,     \* iterations the first loop still has to make
    batches,        \* the batches pushed so far
    \* the in-process downloader's main
    mpc,            \* main's position
    arg_threads,    \* args.threads
    all_chapters,   \* what fetch_chapters_urls returned
    selected_chapters, \* what select_chapters returned
    n_chapters,     \* num_chapters, the length of the selection
    mkdir_next,     \* selected chapters create_dir_all was called for
    created_dirs,   \* chapters whose output directory exists
    mkdir_failed,   \* whether a create_dir_all call failed
    tasks,          \* the spawned download tasks: batch, position, failures,
                    \* and the download_chapter calls made with their outcomes
    joined,         \* tasks main has awaited
    all_failed_chapters, \* the failed chapters collected from the tasks
    total_progress, \* position of the total progress bar
    exit,           \* how the process ended
    fatal,          \* the fatal pre-flight condition met, if any
    attempts        \* requests made for the title and for the chapter list

kvars == <<fpc, anchors, unmapped, chapter_list>>

svars == <<spc, jobs_in, jobs, num_batches, split_n, chunk_size, extra_left,
           batches>>

mvars == <<mpc, arg_threads, all_chapters, selected_chapters, n_chapters,
           mkdir_next, created_dirs, mkdir_failed, tasks, joined,
           all_failed_chapters, total_progress, exit, fatal, attempts>>

xvars == <<kvars, svars, mvars>>

qvars == <<numChapters, numWorkers, dpc, pubJobs, pubSentinels, workQ, replyQ,
           wpc, inbox, cur, curAcked, dlFailed, sentinels, exitReason,
           okDownloads, ackedJobs, completions, failedReported, tpc, counter,
           repliesAcked, malformed>>

cvars == <<dcpc, imgs, image_urls, nextPage, pstate, pstarts, phttp, pres,
           results, failed_pages, files>>

vars == <<qvars, cvars, xvars>>

Workers == 1..MaxThreads

\* ------------------------------------------------------------- payloads
\* models::Chapter { url, title }
Chapter(i) == [url |-> i, title |-> 10 + i]

\* rkyv::to_bytes(chapter): the two fields, one after the other
to_bytes(ch) == <<ch.url, ch.title>>

\* rkyv::from_bytes::<Chapter>(data): Ok(chapter) for an encoded Chapter,
\* Err for any other byte sequence
from_bytes(b) ==
    IF Len(b) = 2
    THEN [ok |-> TRUE, chapter |-> [url |-> b[1], title |-> b[2]]]
    ELSE [ok |-> FALSE, chapter |-> [url |-> 0, title |-> 0]]

\* the sentinel: a literal that is no encoded Chapter
Sentinel == <<0>>

\* an unexpected payload on the reply queue
MalformedReply == <<0, 0, 0>>

NoMsg == <<>>

\* ------------------------------------------------------------ dispatcher
\* let num_threads = args.threads.min(num_chapters);
num_threads(threads, num_chapters) ==
    IF threads < num_chapters THEN threads ELSE num_chapters

Spawned == 1..numWorkers

\* the tracker is started and the workers are spawned before anything is
\* published; each worker is in its consume loop (worker.rs:116-175)
QInit ==
    /\ \E c \in 1..MaxChapters, t \in 1..MaxThreads :
          /\ numChapters = c
          /\ numWorkers = num_threads(t, c)
    /\ dpc = "publish_jobs"
    /\ pubJobs = 0
    /\ pubSentinels = 0
    /\ workQ = <<>>
    /\ replyQ = <<>>
    /\ wpc = [w \in Workers |-> IF w <= numWorkers THEN "idle" ELSE "unused"]
    /\ inbox = [w \in Workers |-> <<>>]
    /\ cur = [w \in Workers |-> NoMsg]
    /\ curAcked = [w \in Workers |-> FALSE]
    /\ dlFailed = [w \in Workers |-> FALSE]
    /\ sentinels = [w \in Workers |-> 0]
    /\ exitReason = [w \in Workers |-> "none"]
    /\ okDownloads = EmptyBag
    /\ ackedJobs = EmptyBag
    /\ completions = EmptyBag
    /\ failedReported = FALSE
    /\ tpc = "consuming"
    /\ counter = 0
    /\ repliesAcked = 0
    /\ malformed = 0

\* publish one job per selected chapter
PublishJob ==
    /\ dpc = "publish_jobs"
    /\ workQ' = Append(workQ, to_bytes(Chapter(pubJobs + 1)))
    /\ pubJobs' = pubJobs + 1
    /\ dpc' = IF pubJobs + 1 = numChapters THEN "publish_sentinels" ELSE dpc
    /\ UNCHANGED <<xvars, cvars, failedReported, numChapters, numWorkers, pubSentinels, replyQ, wpc, inbox,
                   cur, curAcked, dlFailed, sentinels, exitReason, okDownloads,
                   ackedJobs, completions, tpc, counter, repliesAcked, malformed>>

\* then one sentinel per worker
PublishSentinel ==
    /\ dpc = "publish_sentinels"
    /\ workQ' = Append(workQ, Sentinel)
    /\ pubSentinels' = pubSentinels + 1
    /\ dpc' = IF pubSentinels + 1 = numWorkers THEN "wait_workers" ELSE dpc
    /\ UNCHANGED <<xvars, cvars, failedReported, numChapters, numWorkers, pubJobs, replyQ, wpc, inbox,
                   cur, curAcked, dlFailed, sentinels, exitReason, okDownloads,
                   ackedJobs, completions, tpc, counter, repliesAcked, malformed>>

AllWorkersExited == \A w \in Spawned : wpc[w] = "exited"

\* wait for all worker processes to exit
WaitWorkers ==
    /\ dpc = "wait_workers"
    /\ AllWorkersExited
    /\ dpc' = "await_tracker"
    /\ UNCHANGED <<xvars, cvars, failedReported, numChapters, numWorkers, pubJobs, pubSentinels, workQ,
                   replyQ, wpc, inbox, cur, curAcked, dlFailed, sentinels,
                   exitReason, okDownloads, ackedJobs, completions, tpc,
                   counter, repliesAcked, malformed>>

\* await the tracker task
AwaitTracker ==
    /\ dpc = "await_tracker"
    /\ tpc = "stopped"
    /\ dpc' = "done"
    /\ UNCHANGED <<xvars, cvars, failedReported, numChapters, numWorkers, pubJobs, pubSentinels, workQ,
                   replyQ, wpc, inbox, cur, curAcked, dlFailed, sentinels,
                   exitReason, okDownloads, ackedJobs, completions, tpc,
                   counter, repliesAcked, malformed>>

\* ---------------------------------------------------------------- broker
\* deliveries of worker w that the broker holds as unacknowledged
Unacked(w) ==
    (IF cur[w] # NoMsg /\ ~curAcked[w] THEN <<cur[w]>> ELSE <<>>) \o inbox[w]

\* w's consumer is registered: from basic_consume until the process ends
Consuming(w) ==
    wpc[w] \in {"idle", "downloading", "downloaded", "acked", "leaving"}

\* basic_qos(1) + basic_consume: the broker pushes the head of the queue to a
\* registered consumer that holds fewer than PrefetchCount unacknowledged
\* deliveries
Deliver(w) ==
    /\ Consuming(w)
    /\ workQ # <<>>
    /\ Len(Unacked(w)) < PrefetchCount
    /\ inbox' = [inbox EXCEPT ![w] = Append(@, Head(workQ))]
    /\ workQ' = Tail(workQ)
    /\ UNCHANGED <<xvars, cvars, failedReported, numChapters, numWorkers, dpc, pubJobs, pubSentinels, replyQ,
                   wpc, cur, curAcked, dlFailed, sentinels, exitReason,
                   okDownloads, ackedJobs, completions, tpc, counter,
                   repliesAcked, malformed>>

\* the work queue after w's connection closed: its unacknowledged deliveries
\* go back to the head of the queue, in their order
Requeued(w) == Unacked(w) \o workQ

\* ---------------------------------------------------------------- worker
\* mutant of ReceiveJob: the delivery is acknowledged as soon as it is pulled,
\* before download_chapter is called
ReceiveJob_AckOnReceipt(w) ==
    /\ wpc[w] = "idle"
    /\ inbox[w] # <<>>
    /\ from_bytes(Head(inbox[w])).ok
    /\ cur' = [cur EXCEPT ![w] = Head(inbox[w])]
    /\ curAcked' = [curAcked EXCEPT ![w] = TRUE]
    /\ ackedJobs' = ackedJobs (+) SetToBag({Head(inbox[w])})
    /\ inbox' = [inbox EXCEPT ![w] = Tail(@)]
    /\ wpc' = [wpc EXCEPT ![w] = "downloading"]
    /\ UNCHANGED <<xvars, cvars, failedReported, numChapters, numWorkers, dpc, pubJobs, pubSentinels,
                   workQ, replyQ, dlFailed, sentinels, exitReason, okDownloads,
                   completions, tpc, counter, repliesAcked, malformed>>

\* consumer.next() yields Ok(delivery) whose data is a Chapter: the worker
\* calls download_chapter
ReceiveJob(w) ==
    /\ wpc[w] = "idle"
    /\ inbox[w] # <<>>
    /\ from_bytes(Head(inbox[w])).ok
    /\ cur' = [cur EXCEPT ![w] = Head(inbox[w])]
    /\ curAcked' = [curAcked EXCEPT ![w] = FALSE]
    /\ inbox' = [inbox EXCEPT ![w] = Tail(@)]
    /\ wpc' = [wpc EXCEPT ![w] = "downloading"]
    /\ UNCHANGED <<xvars, cvars, failedReported, numChapters, numWorkers, dpc, pubJobs, pubSentinels, workQ,
                   replyQ, dlFailed, sentinels, exitReason, okDownloads,
                   ackedJobs, completions, tpc, counter, repliesAcked,
                   malformed>>

\* mutant of DownloadReturn: on Err the worker leaves its loop as it does on a
\* delivery error, and goes on to cancel its consumer
DownloadReturn_ErrBreaks(w) ==
    /\ wpc[w] = "downloading"
    /\ \/ \E anyFailed \in BOOLEAN :
             /\ dlFailed' = [dlFailed EXCEPT ![w] = anyFailed]
             /\ wpc' = [wpc EXCEPT ![w] = "downloaded"]
             /\ okDownloads' = okDownloads (+) SetToBag({cur[w]})
             /\ UNCHANGED <<workQ, inbox, cur, exitReason>>
       \/ /\ wpc' = [wpc EXCEPT ![w] = "leaving"]
          /\ exitReason' = [exitReason EXCEPT ![w] = "download_error"]
          /\ UNCHANGED <<workQ, inbox, cur, dlFailed, okDownloads>>
    /\ UNCHANGED <<xvars, cvars, failedReported, numChapters, numWorkers, dpc, pubJobs, pubSentinels, replyQ,
                   curAcked, sentinels, ackedJobs, completions, tpc, counter,
                   repliesAcked, malformed>>

\* download_chapter(...).await? : Ok(failed_pages), with or without failed
\* pages, lets the worker go on; Err ends the process with the delivery
\* unacknowledged and the consumer not cancelled
DownloadReturn(w) ==
    /\ wpc[w] = "downloading"
    /\ \/ \E anyFailed \in BOOLEAN :
             /\ dlFailed' = [dlFailed EXCEPT ![w] = anyFailed]
             /\ wpc' = [wpc EXCEPT ![w] = "downloaded"]
             /\ okDownloads' = okDownloads (+) SetToBag({cur[w]})
             /\ UNCHANGED <<workQ, inbox, cur, exitReason>>
       \/ /\ wpc' = [wpc EXCEPT ![w] = "exited"]
          /\ exitReason' = [exitReason EXCEPT ![w] = "download_error"]
          /\ workQ' = Requeued(w)
          /\ inbox' = [inbox EXCEPT ![w] = <<>>]
          /\ cur' = [cur EXCEPT ![w] = NoMsg]
          /\ UNCHANGED <<dlFailed, okDownloads>>
    /\ UNCHANGED <<xvars, cvars, failedReported, numChapters, numWorkers, dpc, pubJobs, pubSentinels, replyQ,
                   curAcked, sentinels, ackedJobs, completions, tpc, counter,
                   repliesAcked, malformed>>

\* delivery.ack(...) after download_chapter returned
AckJob(w) ==
    /\ wpc[w] = "downloaded"
    /\ curAcked' = [curAcked EXCEPT ![w] = TRUE]
    /\ ackedJobs' = ackedJobs (+) SetToBag({cur[w]})
    /\ wpc' = [wpc EXCEPT ![w] = "acked"]
    /\ UNCHANGED <<xvars, cvars, failedReported, numChapters, numWorkers, dpc, pubJobs, pubSentinels, workQ,
                   replyQ, inbox, cur, dlFailed, sentinels, exitReason,
                   okDownloads, completions, tpc, counter, repliesAcked,
                   malformed>>

\* mutant of CompletionPayload: the record is built with its fields swapped
CompletionPayload_Swapped(w) ==
    <<from_bytes(cur[w]).chapter.title, from_bytes(cur[w]).chapter.url>>

\* the payload of the completion record: rkyv::to_bytes(chapter), chapter
\* being the Chapter deserialized from the delivery
CompletionPayload(w) == to_bytes(from_bytes(cur[w]).chapter)

\* send_channel.basic_publish("", "chapter_completed_queue", ...), then back
\* to consumer.next()
PublishCompletion(w) ==
    /\ wpc[w] = "acked"
    /\ replyQ' = Append(replyQ, CompletionPayload(w))
    /\ completions' = completions (+) SetToBag({CompletionPayload(w)})
    /\ failedReported' = (failedReported \/ dlFailed[w])
    /\ cur' = [cur EXCEPT ![w] = NoMsg]
    /\ curAcked' = [curAcked EXCEPT ![w] = FALSE]
    /\ dlFailed' = [dlFailed EXCEPT ![w] = FALSE]
    /\ wpc' = [wpc EXCEPT ![w] = "idle"]
    /\ UNCHANGED <<xvars, cvars, numChapters, numWorkers, dpc, pubJobs, pubSentinels, workQ,
                   inbox, sentinels, exitReason, okDownloads, ackedJobs, tpc,
                   counter, repliesAcked, malformed>>

\* mutant of ReceiveSentinel: the sentinel is acknowledged and the loop goes on
ReceiveSentinel_NoBreak(w) ==
    /\ wpc[w] = "idle"
    /\ inbox[w] # <<>>
    /\ ~from_bytes(Head(inbox[w])).ok
    /\ inbox' = [inbox EXCEPT ![w] = Tail(@)]
    /\ sentinels' = [sentinels EXCEPT ![w] = @ + 1]
    /\ exitReason' = [exitReason EXCEPT ![w] = "sentinel"]
    /\ wpc' = [wpc EXCEPT ![w] = "idle"]
    /\ UNCHANGED <<xvars, cvars, failedReported, numChapters, numWorkers, dpc, pubJobs, pubSentinels, workQ,
                   replyQ, cur, curAcked, dlFailed, okDownloads, ackedJobs,
                   completions, tpc, counter, repliesAcked, malformed>>

\* consumer.next() yields Ok(delivery) whose data is no Chapter: ack, break
ReceiveSentinel(w) ==
    /\ wpc[w] = "idle"
    /\ inbox[w] # <<>>
    /\ ~from_bytes(Head(inbox[w])).ok
    /\ inbox' = [inbox EXCEPT ![w] = Tail(@)]
    /\ sentinels' = [sentinels EXCEPT ![w] = @ + 1]
    /\ exitReason' = [exitReason EXCEPT ![w] = "sentinel"]
    /\ wpc' = [wpc EXCEPT ![w] = "leaving"]
    /\ UNCHANGED <<xvars, cvars, failedReported, numChapters, numWorkers, dpc, pubJobs, pubSentinels, workQ,
                   replyQ, cur, curAcked, dlFailed, okDownloads, ackedJobs,
                   completions, tpc, counter, repliesAcked, malformed>>

\* consumer.next() yields Err(err): eprintln, break
DeliveryError(w) ==
    /\ wpc[w] = "idle"
    /\ exitReason' = [exitReason EXCEPT ![w] = "delivery_error"]
    /\ wpc' = [wpc EXCEPT ![w] = "leaving"]
    /\ UNCHANGED <<xvars, cvars, failedReported, numChapters, numWorkers, dpc, pubJobs, pubSentinels, workQ,
                   replyQ, inbox, cur, curAcked, dlFailed, sentinels,
                   okDownloads, ackedJobs, completions, tpc, counter,
                   repliesAcked, malformed>>

\* after the loop: basic_cancel("worker"), return Ok(()); the process ends and
\* its connection closes
CancelAndExit(w) ==
    /\ wpc[w] = "leaving"
    /\ wpc' = [wpc EXCEPT ![w] = "exited"]
    /\ workQ' = Requeued(w)
    /\ inbox' = [inbox EXCEPT ![w] = <<>>]
    /\ UNCHANGED <<xvars, cvars, failedReported, numChapters, numWorkers, dpc, pubJobs, pubSentinels, replyQ,
                   cur, curAcked, dlFailed, sentinels, exitReason, okDownloads,
                   ackedJobs, completions, tpc, counter, repliesAcked,
                   malformed>>

\* --------------------------------------------------- completion tracker
\* mutant of TrackerHandle: every delivery is counted, a Chapter or not
TrackerHandle_CountsAll ==
    /\ tpc = "consuming"
    /\ replyQ # <<>>
    /\ replyQ' = Tail(replyQ)
    /\ repliesAcked' = repliesAcked + 1
    /\ counter' = counter + 1
    /\ tpc' = IF counter + 1 = numChapters THEN "stopped" ELSE tpc
    /\ UNCHANGED <<xvars, cvars, failedReported, numChapters, numWorkers, dpc, pubJobs, pubSentinels,
                   workQ, wpc, inbox, cur, curAcked, dlFailed, sentinels,
                   exitReason, okDownloads, ackedJobs, completions, malformed>>

\* one reply delivery: a Chapter is acknowledged and counted, and the tracker
\* stops when the counter equals the scheduled total; any other payload is
\* acknowledged and not counted
TrackerHandle ==
    /\ tpc = "consuming"
    /\ replyQ # <<>>
    /\ replyQ' = Tail(replyQ)
    /\ repliesAcked' = repliesAcked + 1
    /\ IF from_bytes(Head(replyQ)).ok
       THEN /\ counter' = counter + 1
            /\ tpc' = IF counter + 1 = numChapters THEN "stopped" ELSE tpc
       ELSE UNCHANGED <<counter, tpc>>
    /\ UNCHANGED <<xvars, cvars, failedReported, numChapters, numWorkers, dpc, pubJobs, pubSentinels, workQ,
                   wpc, inbox, cur, curAcked, dlFailed, sentinels, exitReason,
                   okDownloads, ackedJobs, completions, malformed>>

\* an unexpected payload arrives on the reply queue
MalformedArrives ==
    /\ malformed < MaxMalformed
    /\ tpc = "consuming"
    /\ replyQ' = Append(replyQ, MalformedReply)
    /\ malformed' = malformed + 1
    /\ UNCHANGED <<xvars, cvars, failedReported, numChapters, numWorkers, dpc, pubJobs, pubSentinels, workQ,
                   wpc, inbox, cur, curAcked, dlFailed, sentinels, exitReason,
                   okDownloads, ackedJobs, completions, tpc, counter,
                   repliesAcked>>

QNext ==
    \/ PublishJob
    \/ PublishSentinel
    \/ WaitWorkers
    \/ AwaitTracker
    \/ TrackerHandle
    \/ \E w \in Workers :
          \/ Deliver(w)
          \/ ReceiveJob(w)
          \/ DownloadReturn(w)
          \/ AckJob(w)
          \/ PublishCompletion(w)
          \/ ReceiveSentinel(w)
          \/ DeliveryError(w)
          \/ CancelAndExit(w)


\* ------------------------------------------------------------ page fetcher
HttpOutcomes == {"transport_error", "status_2xx", "status_other"}
FsOutcomes == {"written", "io_error"}

\* format!("{page_num:03}.jpg"): at least three decimal digits, zero-padded
RECURSIVE Digits(_)
Digits(n) == IF n < 10 THEN <<n>> ELSE Append(Digits(n \div 10), n % 10)

file_name(page_num) ==
    LET d == Digits(page_num)
    IN  IF Len(d) >= 3 THEN d
        ELSE [i \in 1..3 |-> IF i <= 3 - Len(d) THEN 0 ELSE d[i - (3 - Len(d))]]

\* download_file: client.get(url).send().await?.bytes().await gives Err only
\* when the transport fails (no status check is made); on Ok(data) the file is
\* created and written, and an I/O error there is returned as it is
download_file(http, fs, page_num) ==
    IF http = "transport_error"
    THEN [kind |-> "PageDownloadFailed", page_num |-> page_num]
    ELSE IF fs = "io_error"
         THEN [kind |-> "IoError", page_num |-> -1]
         ELSE [kind |-> "Ok", page_num |-> -1]

\* whether download_file leaves the page's file behind: File::create and
\* write_all succeeded ("io_error" stands for File::create failing)
writes_file(http, fs) == http # "transport_error" /\ fs = "written"

\* ------------------------------------------------------- download_chapter
Pages == 0..(MaxImgs - 1)

NumPages == Len(image_urls)

InFlight == {p \in Pages : pstate[p] = "inflight"}

\* a finished fetch that was not a 2xx response written to its file
BadPages == {p \in Pages : pstate[p] = "done" /\
                 (phttp[p] # "status_2xx" \/ pres[p].kind # "Ok")}

\* fetch_image_urls: the urls of the img elements that have one, in order
extract_urls(elems) ==
    LET idx == SelectSeq([i \in 1..Len(elems) |-> i], LAMBDA i : elems[i])
    IN  idx

\* results.into_iter().filter_map(...): the page_num of every result that
\* downcasts to PageDownloadFailed
collect_failed(rs) ==
    LET sel == SelectSeq(rs, LAMBDA r : r.kind = "PageDownloadFailed")
    IN  [i \in 1..Len(sel) |-> sel[i].page_num]

ImgInputs ==
    {e \in UNION {[1..n -> BOOLEAN] : n \in 0..MaxImgs} :
        Cardinality({i \in DOMAIN e : ~e[i]}) <= MaxMissing}

CIdle ==
    /\ dcpc = "start"
    /\ image_urls = <<>>
    /\ nextPage = 0
    /\ pstate = [p \in Pages |-> "pending"]
    /\ pstarts = [p \in Pages |-> 0]
    /\ phttp = [p \in Pages |-> "none"]
    /\ pres = [p \in Pages |-> [kind |-> "none", page_num |-> -1]]
    /\ results = <<>>
    /\ failed_pages = <<>>
    /\ files = {}

CInit ==
    /\ imgs \in ImgInputs
    /\ CIdle

\* let image_urls = fetch_image_urls(client, chapter_url).await?;
FetchImageUrls ==
    /\ dcpc = "start"
    /\ \/ /\ image_urls' = extract_urls(imgs)
          /\ dcpc' = "running"
       \/ /\ dcpc' = "error"
          /\ UNCHANGED image_urls
    /\ UNCHANGED <<xvars, qvars, imgs, nextPage, pstate, pstarts, phttp, pres, results,
                   failed_pages, files>>

\* mutant of StartFetch: the stream is buffered without a limit
StartFetch_Unbounded ==
    /\ dcpc = "running"
    /\ nextPage < NumPages
    /\ pstate' = [pstate EXCEPT ![nextPage] = "inflight"]
    /\ pstarts' = [pstarts EXCEPT ![nextPage] = @ + 1]
    /\ nextPage' = nextPage + 1
    /\ UNCHANGED <<xvars, qvars, dcpc, imgs, image_urls, phttp, pres, results,
                   failed_pages, files>>

\* buffer_unordered(6): while fewer than the limit are in progress, take the
\* next (page_num, page_url) from the stream and start its download_file
StartFetch ==
    /\ dcpc = "running"
    /\ nextPage < NumPages
    /\ Cardinality(InFlight) < ConcurrencyLimit
    /\ pstate' = [pstate EXCEPT ![nextPage] = "inflight"]
    /\ pstarts' = [pstarts EXCEPT ![nextPage] = @ + 1]
    /\ nextPage' = nextPage + 1
    /\ UNCHANGED <<xvars, qvars, dcpc, imgs, image_urls, phttp, pres, results, failed_pages,
                   files>>

\* mutant of FetchCompletes: the file is named by the position at which the
\* fetch finished, not by the page's index
FetchCompletes_NamedByArrival(p) ==
    /\ dcpc = "running"
    /\ pstate[p] = "inflight"
    /\ nextPage = NumPages \/ Cardinality(InFlight) >= ConcurrencyLimit
    /\ \E http \in HttpOutcomes, fs \in FsOutcomes :
          /\ http = "transport_error" => fs = "written"
          /\ (http = "status_2xx" /\ fs = "written")
                \/ Cardinality(BadPages) < MaxBadPages
          /\ phttp' = [phttp EXCEPT ![p] = http]
          /\ pres' = [pres EXCEPT ![p] = download_file(http, fs, p)]
          /\ results' = Append(results, download_file(http, fs, p))
          /\ files' = IF writes_file(http, fs)
                      THEN {f \in files : f.name # file_name(Len(results))} \cup
                           {[name |-> file_name(Len(results)),
                             data |-> <<image_urls[p + 1], http>>]}
                      ELSE files
    /\ pstate' = [pstate EXCEPT ![p] = "done"]
    /\ UNCHANGED <<xvars, qvars, dcpc, imgs, image_urls, nextPage, pstarts, failed_pages>>

\* buffer_unordered polls the fetches in progress once it has filled up: one
\* of them finishes, in any order, and its result is collected.  The file
\* system is not consulted when the transport failed, and at most MaxBadPages
\* fetches of a call are anything but a 2xx response written to its file.
FetchCompletes(p) ==
    /\ dcpc = "running"
    /\ pstate[p] = "inflight"
    /\ nextPage = NumPages \/ Cardinality(InFlight) >= ConcurrencyLimit
    /\ \E http \in HttpOutcomes, fs \in FsOutcomes :
          /\ http = "transport_error" => fs = "written"
          /\ (http = "status_2xx" /\ fs = "written")
                \/ Cardinality(BadPages) < MaxBadPages
          /\ phttp' = [phttp EXCEPT ![p] = http]
          /\ pres' = [pres EXCEPT ![p] = download_file(http, fs, p)]
          /\ results' = Append(results, download_file(http, fs, p))
          /\ files' = IF writes_file(http, fs)
                      THEN {f \in files : f.name # file_name(p)} \cup
                           {[name |-> file_name(p),
                             data |-> <<image_urls[p + 1], http>>]}
                      ELSE files
    /\ pstate' = [pstate EXCEPT ![p] = "done"]
    /\ UNCHANGED <<xvars, qvars, dcpc, imgs, image_urls, nextPage, pstarts, failed_pages>>

\* mutant of ChapterReturn: the first failed fetch ends the collection, as a
\* try_collect would
ChapterReturn_AbortOnFailure ==
    /\ dcpc = "running"
    /\ \/ nextPage = NumPages /\ InFlight = {}
       \/ \E i \in DOMAIN results : results[i].kind # "Ok"
    /\ failed_pages' = collect_failed(results)
    /\ dcpc' = "returned"
    /\ UNCHANGED <<xvars, qvars, imgs, image_urls, nextPage, pstate, pstarts, phttp,
                   pres, results, files>>

\* tasks.collect().await ends when the stream is exhausted and nothing is in
\* progress; Ok(failed_pages)
ChapterReturn ==
    /\ dcpc = "running"
    /\ nextPage = NumPages
    /\ InFlight = {}
    /\ failed_pages' = collect_failed(results)
    /\ dcpc' = "returned"
    /\ UNCHANGED <<xvars, qvars, imgs, image_urls, nextPage, pstate, pstarts, phttp, pres,
                   results, files>>

CNext ==
    \/ FetchImageUrls
    \/ StartFetch
    \/ \E p \in Pages : FetchCompletes(p)
    \/ ChapterReturn


\* ------------------------------------------------- fetch_chapters_urls
\* Strings are sequences of ASCII codes; Option values are records.
None == [some |-> FALSE, val |-> <<>>]

Some(v) == [some |-> TRUE, val |-> v]

\* Option::unwrap_or_default: the value, or the type's default
unwrap_or_default(o, default) == IF o.some THEN o.val ELSE default

\* char::is_whitespace, for the ASCII space
is_whitespace(ch) == ch = 32

\* str::trim: without the leading and trailing whitespace
trim(str) ==
    LET K == {i \in 1..Len(str) : ~is_whitespace(str[i])}
    IN  IF K = {} THEN <<>>
        ELSE SubSeq(str, CHOOSE i \in K : \A j \in K : i <= j,
                         CHOOSE i \in K : \A j \in K : j <= i)

\* str::to_ascii_lowercase: 'A'..'Z' become 'a'..'z'
to_ascii_lowercase(str) ==
    [i \in 1..Len(str) |-> IF str[i] \in 65..90 THEN str[i] + 32 ELSE str[i]]

\* title.replace('/', "-")
replace(str) == [i \in 1..Len(str) |-> IF str[i] = 47 THEN 45 ELSE str[i]]

\* str::rfind: the byte index (from 0) of the last character that is one of
\* the characters looked for
rfind(str, pattern) ==
    LET K == {i \in 1..Len(str) : str[i] \in pattern}
    IN  IF K = {} THEN None
        ELSE Some((CHOOSE i \in K : \A j \in K : j <= i) - 1)

\* String::split_off(at): panics when at is beyond the end of the string;
\* else the string keeps [0, at) and [at, len) is returned
split_off(str, at) ==
    IF at > Len(str)
    THEN [panics |-> TRUE, kept |-> str, returned |-> <<>>]
    ELSE [panics |-> FALSE, kept |-> SubSeq(str, 1, at),
          returned |-> SubSeq(str, at + 1, Len(str))]

\* the width the chapter number is padded to: four digits before the last '.'
number_width(chapter_num_str) ==
    LET i == rfind(chapter_num_str, {46})
    IN  IF i.some THEN Len(chapter_num_str) - i.val + 4 ELSE 4

\* format!("{str:0>width$}"): '0' is put in front until the width is reached
pad_zero(str, width) ==
    IF Len(str) >= width THEN str
    ELSE [i \in 1..(width - Len(str)) |-> 48] \o str

\* the closure fetch_chapters_urls maps over the anchors
map_anchor(a) ==
    LET title == replace(to_ascii_lowercase(trim(unwrap_or_default(a.title, <<>>))))
        chapter_num_pos == unwrap_or_default(rfind(title, {ch \in 0..127 : is_whitespace(ch)}), 0)
        split == split_off(title, chapter_num_pos + 1)
        chapter_num_str == split.returned
    IN  [panics |-> split.panics,
         chapter |-> [url |-> unwrap_or_default(a.href, <<>>),
                      title |-> split.kept \o
                                pad_zero(chapter_num_str, number_width(chapter_num_str))]]

\* a chapter number as the site writes it: "10", or "10.5" with a fraction
NumStr(int, frac) ==
    [i \in 1..Len(Digits(int)) |-> 48 + Digits(int)[i]] \o
    (IF frac = 0 THEN <<>>
     ELSE <<46>> \o [i \in 1..Len(Digits(frac)) |-> 48 + Digits(frac)[i]])

\* how a chapter list writes its titles: the number alone, "Ch 10", or
\* " a/b 10 "
TitleForms == {"bare", "prefixed", "spaced"}

title_attr(form, int, frac) ==
    CASE form = "bare" -> NumStr(int, frac)
      [] form = "prefixed" -> <<67, 104, 32>> \o NumStr(int, frac)
      [] form = "spaced" -> <<32, 97, 47, 98, 32>> \o NumStr(int, frac) \o <<32>>

\* what an anchor of the list can be: without a title attribute, with an
\* empty one, or titled with a chapter number
AnchorKinds ==
    [kind : {"missing", "empty"}, int : {0}, frac : {0}] \cup
    [kind : {"numbered"}, int : 0..MaxChapterNum, frac : 0..MaxFrac]

\* the anchor at DOM position i (from 1); its href names the position
anchor(form, k, i) ==
    [title |-> CASE k.kind = "missing" -> None
                 [] k.kind = "empty" -> Some(<<>>)
                 [] k.kind = "numbered" -> Some(title_attr(form, k.int, k.frac)),
     href |-> Some(<<i>>),
     number |-> k]

KIdle ==
    /\ fpc = "unused"
    /\ anchors = <<>>
    /\ unmapped = 0
    /\ chapter_list = <<>>

KInit ==
    /\ fpc = "request"
    /\ \E form \in TitleForms, n \in 0..MaxAnchors :
          \E kinds \in [1..n -> AnchorKinds] :
             anchors = [i \in 1..n |-> anchor(form, kinds[i], i)]
    /\ unmapped = Len(anchors)
    /\ chapter_list = <<>>

\* client.get(title_url).send().await?.text().await? and the parse
GetListPage ==
    /\ fpc = "request"
    /\ \E ok \in BOOLEAN : fpc' = IF ok THEN "mapping" ELSE "failed"
    /\ UNCHANGED <<qvars, cvars, svars, mvars, anchors, unmapped, chapter_list>>

\* .map(closure).rev().collect(): the closure runs on the anchors from the
\* last to the first; a panic in it unwinds out of fetch_chapters_urls
MapAnchor ==
    /\ fpc = "mapping"
    /\ unmapped > 0
    /\ IF map_anchor(anchors[unmapped]).panics
       THEN /\ fpc' = "panicked"
            /\ UNCHANGED <<unmapped, chapter_list>>
       ELSE /\ chapter_list' = Append(chapter_list, map_anchor(anchors[unmapped]).chapter)
            /\ unmapped' = unmapped - 1
            /\ fpc' = fpc
    /\ UNCHANGED <<qvars, cvars, svars, mvars, anchors>>

\* Ok(collected)
ListReturn ==
    /\ fpc = "mapping"
    /\ unmapped = 0
    /\ fpc' = "returned"
    /\ UNCHANGED <<qvars, cvars, svars, mvars, anchors, unmapped, chapter_list>>

KNext == GetListPage \/ MapAnchor \/ ListReturn

\* ------------------------------------------------------------ split_jobs
\* mutant of ChunkSize: the quotient is rounded up
ChunkSize_RoundedUp(len, nb) == (len + nb - 1) \div nb

\* let chunk_size = n / num_batches;
ChunkSize(len, nb) == len \div nb

\* Vec::split_off(at): the vector keeps [0, at), [at, len) is returned
vec_split_off(vec, at) ==
    [kept |-> SubSeq(vec, 1, at), returned |-> SubSeq(vec, at + 1, Len(vec))]

\* usize::saturating_sub
saturating_sub(a, b) == IF a < b THEN 0 ELSE a - b

SIdle ==
    /\ spc = "unused"
    /\ jobs_in = <<>>
    /\ jobs = <<>>
    /\ num_batches = 0
    /\ split_n = 0
    /\ chunk_size = 0
    /\ extra_left = 0
    /\ batches = <<>>

\* split_jobs(&mut jobs, num_batches) is called on a list of distinct jobs
SInit ==
    /\ spc = "entry"
    /\ \E len \in 0..MaxJobs : jobs = [i \in 1..len |-> i]
    /\ jobs_in = jobs
    /\ num_batches \in 0..MaxBatches
    /\ split_n = 0
    /\ chunk_size = 0
    /\ extra_left = 0
    /\ batches = <<>>

\* n, chunk_size, the empty batches vector and the range of the first loop;
\* the division panics when num_batches is 0
SplitEntry ==
    /\ spc = "entry"
    /\ split_n' = Len(jobs)
    /\ IF num_batches = 0
       THEN /\ spc' = "panicked"
            /\ UNCHANGED <<chunk_size, extra_left>>
       ELSE /\ spc' = "looping"
            /\ chunk_size' = ChunkSize(Len(jobs), num_batches)
            /\ extra_left' = Len(jobs) % num_batches
    /\ UNCHANGED <<qvars, cvars, kvars, mvars, jobs_in, jobs, num_batches, batches>>

\* mutant of SplitExtra: the first loop takes chunk_size jobs, not one more
SplitExtra_NoExtraJob ==
    /\ spc = "looping"
    /\ extra_left > 0
    /\ IF Len(jobs) < chunk_size
       THEN /\ spc' = "panicked"
            /\ UNCHANGED <<jobs, batches, extra_left>>
       ELSE /\ batches' = Append(batches, vec_split_off(jobs, Len(jobs) - chunk_size).returned)
            /\ jobs' = vec_split_off(jobs, Len(jobs) - chunk_size).kept
            /\ extra_left' = extra_left - 1
            /\ spc' = spc
    /\ UNCHANGED <<qvars, cvars, kvars, mvars, jobs_in, num_batches, split_n, chunk_size>>

\* one iteration of for _ in 0..(n % num_batches): the last chunk_size + 1
\* jobs become a batch; the subtraction (or split_off) panics when the list
\* is shorter than that
SplitExtra ==
    /\ spc = "looping"
    /\ extra_left > 0
    /\ IF Len(jobs) < chunk_size + 1
       THEN /\ spc' = "panicked"
            /\ UNCHANGED <<jobs, batches, extra_left>>
       ELSE /\ batches' = Append(batches,
                             vec_split_off(jobs, Len(jobs) - (chunk_size + 1)).returned)
            /\ jobs' = vec_split_off(jobs, Len(jobs) - (chunk_size + 1)).kept
            /\ extra_left' = extra_left - 1
            /\ spc' = spc
    /\ UNCHANGED <<qvars, cvars, kvars, mvars, jobs_in, num_batches, split_n, chunk_size>>

\* one iteration of while !jobs.is_empty(): the last chunk_size jobs become a
\* batch; with chunk_size 0 the list never shrinks and the loop never ends
SplitRest ==
    /\ spc = "looping"
    /\ extra_left = 0
    /\ jobs # <<>>
    /\ IF chunk_size = 0
       THEN /\ spc' = "diverged"
            /\ UNCHANGED <<jobs, batches>>
       ELSE /\ batches' = Append(batches,
                  vec_split_off(jobs, saturating_sub(Len(jobs), chunk_size)).returned)
            /\ jobs' = vec_split_off(jobs, saturating_sub(Len(jobs), chunk_size)).kept
            /\ spc' = spc
    /\ UNCHANGED <<qvars, cvars, kvars, mvars, jobs_in, num_batches, split_n, chunk_size,
                   extra_left>>

\* the list is empty: batches is returned
SplitReturn ==
    /\ spc = "looping"
    /\ extra_left = 0
    /\ jobs = <<>>
    /\ spc' = "returned"
    /\ UNCHANGED <<qvars, cvars, kvars, mvars, jobs_in, jobs, num_batches, split_n,
                   chunk_size, extra_left, batches>>

SNext == SplitEntry \/ SplitExtra \/ SplitRest \/ SplitReturn

\* ------------------------------------------------- the in-process main
MIdle ==
    /\ mpc = "unused"
    /\ arg_threads = 0
    /\ all_chapters = <<>>
    /\ selected_chapters = <<>>
    /\ n_chapters = 0
    /\ mkdir_next = 0
    /\ created_dirs = {}
    /\ mkdir_failed = FALSE
    /\ tasks = <<>>
    /\ joined = 0
    /\ all_failed_chapters = <<>>
    /\ total_progress = 0
    /\ exit = "none"
    /\ fatal = "none"
    /\ attempts = [title |-> 0, list |-> 0]

\* Args::parse(): threads is any usize, 0 included
MInit ==
    /\ mpc = "get_title"
    /\ arg_threads \in 0..MaxThreads
    /\ all_chapters = <<>>
    /\ selected_chapters = <<>>
    /\ n_chapters = 0
    /\ mkdir_next = 0
    /\ created_dirs = {}
    /\ mkdir_failed = FALSE
    /\ tasks = <<>>
    /\ joined = 0
    /\ all_failed_chapters = <<>>
    /\ total_progress = 0
    /\ exit = "none"
    /\ fatal = "none"
    /\ attempts = [title |-> 0, list |-> 0]

\* get_title_from_id(...).await.unwrap_or_else(|err| exit(1)): the request
\* fails, or the last path segment of the final url is a number
\* (InvalidBookId), or it is the title
GetTitleFromId ==
    /\ mpc = "get_title"
    /\ attempts' = [attempts EXCEPT !.title = @ + 1]
    /\ \E outcome \in {"title", "numeric_segment", "transport_error"} :
          IF outcome = "title"
          THEN /\ mpc' = "display_name"
               /\ UNCHANGED <<exit, fatal>>
          ELSE /\ mpc' = "ended"
               /\ exit' = "exit_1"
               /\ fatal' = IF outcome = "numeric_segment" THEN "invalid_book_id"
                           ELSE "title_request_failed"
    /\ UNCHANGED <<qvars, cvars, kvars, svars, arg_threads, all_chapters,
                   selected_chapters, n_chapters, mkdir_next, created_dirs,
                   mkdir_failed, tasks, joined, all_failed_chapters,
                   total_progress>>

\* get_manga_display_name(...).await.unwrap_or_else(|_| Some(title)).unwrap():
\* Err falls back to the title, Ok(None) (a page without h1) panics
GetMangaDisplayName ==
    /\ mpc = "display_name"
    /\ \E outcome \in {"some", "err", "none"} :
          IF outcome = "none"
          THEN mpc' = "ended" /\ exit' = "panic"
          ELSE mpc' = "crawl" /\ exit' = exit
    /\ UNCHANGED <<qvars, cvars, kvars, svars, arg_threads, all_chapters,
                   selected_chapters, n_chapters, mkdir_next, created_dirs,
                   mkdir_failed, tasks, joined, all_failed_chapters,
                   total_progress, fatal, attempts>>

\* mutant of FetchChaptersUrls: an empty chapter list is not fatal
FetchChaptersUrls_EmptyGoesOn ==
    /\ mpc = "crawl"
    /\ attempts' = [attempts EXCEPT !.list = @ + 1]
    /\ \/ \E k \in 0..MaxChapters :
             /\ all_chapters' = [i \in 1..k |-> i]
             /\ mpc' = "select"
             /\ fatal' = IF k = 0 THEN "no_chapters" ELSE fatal
             /\ exit' = exit
       \/ /\ mpc' = "ended"
          /\ exit' = "exit_1"
          /\ fatal' = "crawl_failed"
          /\ UNCHANGED all_chapters
       \/ /\ mpc' = "ended"
          /\ exit' = "panic"
          /\ UNCHANGED <<all_chapters, fatal>>
    /\ UNCHANGED <<qvars, cvars, kvars, svars, arg_threads, selected_chapters,
                   n_chapters, mkdir_next, created_dirs, mkdir_failed, tasks,
                   joined, all_failed_chapters, total_progress>>

\* match fetch_chapters_urls(...).await: Ok(chapters) goes on unless the list
\* is empty, Err exits with 1; the call can also panic on an anchor's title
FetchChaptersUrls ==
    /\ mpc = "crawl"
    /\ attempts' = [attempts EXCEPT !.list = @ + 1]
    /\ \/ \E k \in 0..MaxChapters :
             /\ all_chapters' = [i \in 1..k |-> i]
             /\ IF k = 0
                THEN mpc' = "ended" /\ exit' = "exit_1" /\ fatal' = "no_chapters"
                ELSE mpc' = "select" /\ UNCHANGED <<exit, fatal>>
       \/ /\ mpc' = "ended"
          /\ exit' = "exit_1"
          /\ fatal' = "crawl_failed"
          /\ UNCHANGED all_chapters
       \/ /\ mpc' = "ended"
          /\ exit' = "panic"
          /\ UNCHANGED <<all_chapters, fatal>>
    /\ UNCHANGED <<qvars, cvars, kvars, svars, arg_threads, selected_chapters,
                   n_chapters, mkdir_next, created_dirs, mkdir_failed, tasks,
                   joined, all_failed_chapters, total_progress>>

\* select_chapters: drain(0..start), truncate(end + 1), both picked from the
\* list shown; num_chapters is the length of what is left
SelectChapters ==
    /\ mpc = "select"
    /\ \E start \in 0..(Len(all_chapters) - 1) :
          \E end \in 0..(Len(all_chapters) - start - 1) :
             /\ selected_chapters' = SubSeq(all_chapters, start + 1, start + end + 1)
             /\ n_chapters' = end + 1
    /\ mpc' = "mkdirs"
    /\ UNCHANGED <<qvars, cvars, kvars, svars, arg_threads, all_chapters,
                   mkdir_next, created_dirs, mkdir_failed, tasks, joined,
                   all_failed_chapters, total_progress, exit, fatal, attempts>>

\* mutant of CreateDirAll: a failed create_dir_all is logged and the loop
\* goes on
CreateDirAll_GoesOn ==
    /\ mpc = "mkdirs"
    /\ mkdir_next < n_chapters
    /\ mkdir_next' = mkdir_next + 1
    /\ \E ok \in BOOLEAN :
          IF ok
          THEN /\ created_dirs' = created_dirs \cup {selected_chapters[mkdir_next + 1]}
               /\ UNCHANGED <<mkdir_failed, mpc, exit>>
          ELSE /\ mkdir_failed' = TRUE
               /\ UNCHANGED <<created_dirs, mpc, exit>>
    /\ UNCHANGED <<qvars, cvars, kvars, svars, arg_threads, all_chapters,
                   selected_chapters, n_chapters, tasks, joined,
                   all_failed_chapters, total_progress, fatal, attempts>>

\* one iteration of the loop over the selection:
\* fs::create_dir_all(...).await.inspect_err(...)? ; an error ends main
CreateDirAll ==
    /\ mpc = "mkdirs"
    /\ mkdir_next < n_chapters
    /\ mkdir_next' = mkdir_next + 1
    /\ \E ok \in BOOLEAN :
          IF ok
          THEN /\ created_dirs' = created_dirs \cup {selected_chapters[mkdir_next + 1]}
               /\ UNCHANGED <<mkdir_failed, mpc, exit>>
          ELSE /\ mkdir_failed' = TRUE
               /\ mpc' = "ended"
               /\ exit' = "err"
               /\ UNCHANGED created_dirs
    /\ UNCHANGED <<qvars, cvars, kvars, svars, arg_threads, all_chapters,
                   selected_chapters, n_chapters, tasks, joined,
                   all_failed_chapters, total_progress, fatal, attempts>>

\* after the loop: the total progress bar is made, num_threads is computed
\* and split_jobs(&mut selected_chapters, num_threads) is called
CallSplitJobs ==
    /\ mpc = "mkdirs"
    /\ mkdir_next = n_chapters
    /\ spc' = "entry"
    /\ jobs_in' = selected_chapters
    /\ jobs' = selected_chapters
    /\ num_batches' = num_threads(arg_threads, n_chapters)
    /\ mpc' = "split"
    /\ UNCHANGED <<qvars, cvars, kvars, split_n, chunk_size, extra_left,
                   batches, arg_threads, all_chapters, selected_chapters,
                   n_chapters, mkdir_next, created_dirs, mkdir_failed, tasks,
                   joined, all_failed_chapters, total_progress, exit, fatal,
                   attempts>>

\* split_jobs panicked or never returns: main ends there
SplitFails ==
    /\ mpc = "split"
    /\ spc \in {"panicked", "diverged"}
    /\ mpc' = "ended"
    /\ exit' = "panic"
    /\ UNCHANGED <<qvars, cvars, kvars, svars, arg_threads, all_chapters,
                   selected_chapters, n_chapters, mkdir_next, created_dirs,
                   mkdir_failed, tasks, joined, all_failed_chapters,
                   total_progress, fatal, attempts>>

\* one iteration of for batch in batches: tokio::spawn of a task that runs
\* download_chapters on the batch
SpawnTask ==
    /\ mpc = "split"
    /\ spc = "returned"
    /\ Len(tasks) < Len(batches)
    /\ tasks' = Append(tasks, [batch |-> batches[Len(tasks) + 1], pos |-> 0,
                               failed |-> <<>>, attempted |-> <<>>])
    /\ UNCHANGED <<qvars, cvars, kvars, svars, mpc, arg_threads, all_chapters,
                   selected_chapters, n_chapters, mkdir_next, created_dirs,
                   mkdir_failed, joined, all_failed_chapters, total_progress,
                   exit, fatal, attempts>>

\* every batch has its task: main goes on to await them
AllSpawned ==
    /\ mpc = "split"
    /\ spc = "returned"
    /\ Len(tasks) = Len(batches)
    /\ mpc' = "join"
    /\ UNCHANGED <<qvars, cvars, kvars, svars, arg_threads, all_chapters,
                   selected_chapters, n_chapters, mkdir_next, created_dirs,
                   mkdir_failed, tasks, joined, all_failed_chapters,
                   total_progress, exit, fatal, attempts>>

\* mutant of TaskChapter: a chapter whose download fails is skipped, the
\* progress bars are not advanced for it
TaskChapter_SkipsFailed(t) ==
    /\ tasks[t].pos < Len(tasks[t].batch)
    /\ \E outcome \in {"ok", "failed_pages", "err"} :
          /\ tasks' = [tasks EXCEPT ![t].pos = @ + 1,
                          ![t].failed = IF outcome = "ok" THEN @
                                        ELSE Append(@, tasks[t].batch[tasks[t].pos + 1]),
                          ![t].attempted = Append(@,
                              [chapter |-> tasks[t].batch[tasks[t].pos + 1],
                               outcome |-> outcome])]
          /\ total_progress' = IF outcome = "ok" THEN total_progress + 1
                               ELSE total_progress
    /\ UNCHANGED <<qvars, cvars, kvars, svars, mpc, arg_threads, all_chapters,
                   selected_chapters, n_chapters, mkdir_next, created_dirs,
                   mkdir_failed, joined, all_failed_chapters, exit, fatal,
                   attempts>>

\* mutant of TaskChapter: an Err of download_chapter is passed on, the task
\* returns its failed list without going through the rest of the batch
TaskChapter_StopsOnErr(t) ==
    /\ tasks[t].pos < Len(tasks[t].batch)
    /\ \E outcome \in {"ok", "failed_pages", "err"} :
          /\ tasks' = [tasks EXCEPT
                          ![t].pos = IF outcome = "err" THEN Len(tasks[t].batch)
                                     ELSE @ + 1,
                          ![t].failed = IF outcome = "ok" THEN @
                                        ELSE Append(@, tasks[t].batch[tasks[t].pos + 1]),
                          ![t].attempted = Append(@,
                              [chapter |-> tasks[t].batch[tasks[t].pos + 1],
                               outcome |-> outcome])]
          /\ total_progress' = IF outcome = "err"
                               THEN total_progress + (Len(tasks[t].batch) - tasks[t].pos)
                               ELSE total_progress + 1
    /\ UNCHANGED <<qvars, cvars, kvars, svars, mpc, arg_threads, all_chapters,
                   selected_chapters, n_chapters, mkdir_next, created_dirs,
                   mkdir_failed, joined, all_failed_chapters, exit, fatal,
                   attempts>>

\* one iteration of download_chapters' loop in task t: download_chapter
\* returns Ok([]), Ok(failed pages) or Err; the chapter is pushed to the
\* failed ones unless it is Ok([]); the progress bars are advanced by one
TaskChapter(t) ==
    /\ tasks[t].pos < Len(tasks[t].batch)
    /\ \E outcome \in {"ok", "failed_pages", "err"} :
          tasks' = [tasks EXCEPT ![t].pos = @ + 1,
                       ![t].failed = IF outcome = "ok" THEN @
                                     ELSE Append(@, tasks[t].batch[tasks[t].pos + 1]),
                       ![t].attempted = Append(@,
                           [chapter |-> tasks[t].batch[tasks[t].pos + 1],
                            outcome |-> outcome])]
    /\ total_progress' = total_progress + 1
    /\ UNCHANGED <<qvars, cvars, kvars, svars, mpc, arg_threads, all_chapters,
                   selected_chapters, n_chapters, mkdir_next, created_dirs,
                   mkdir_failed, joined, all_failed_chapters, exit, fatal,
                   attempts>>

\* task.await gives Ok(failed_chapters) once the task has gone through its
\* batch: all_failed_chapters.extend(failed_chapters)
JoinTask ==
    /\ mpc = "join"
    /\ joined < Len(tasks)
    /\ tasks[joined + 1].pos = Len(tasks[joined + 1].batch)
    /\ all_failed_chapters' = all_failed_chapters \o tasks[joined + 1].failed
    /\ joined' = joined + 1
    /\ UNCHANGED <<qvars, cvars, kvars, svars, mpc, arg_threads, all_chapters,
                   selected_chapters, n_chapters, mkdir_next, created_dirs,
                   mkdir_failed, tasks, total_progress, exit, fatal, attempts>>

\* every task awaited: the failed chapters are logged, total_progress.finish()
\* puts the bar at its length, "Downloaded ..." is printed, Ok(())
Report ==
    /\ mpc = "join"
    /\ joined = Len(tasks)
    /\ total_progress' = n_chapters
    /\ mpc' = "ended"
    /\ exit' = "ok"
    /\ UNCHANGED <<qvars, cvars, kvars, svars, arg_threads, all_chapters,
                   selected_chapters, n_chapters, mkdir_next, created_dirs,
                   mkdir_failed, tasks, joined, all_failed_chapters, fatal,
                   attempts>>

MNext ==
    \/ GetTitleFromId
    \/ GetMangaDisplayName
    \/ FetchChaptersUrls
    \/ SelectChapters
    \/ CreateDirAll
    \/ CallSplitJobs
    \/ SplitFails
    \/ SpawnTask
    \/ AllSpawned
    \/ \E t \in 1..Len(tasks) : TaskChapter(t)
    \/ JoinTask
    \/ Report

\* ------------------------------------------------ work-queue protocol claims
Publishing == dpc \in {"publish_jobs", "publish_sentinels"}

\* reply payloads that are no Chapter and still wait on the reply queue
MalformedWaiting ==
    Cardinality({i \in DOMAIN replyQ : ~from_bytes(replyQ[i]).ok})

\* C1: one dispatch run publishes exactly c jobs and exactly w sentinels, no
\* worker consumes two sentinels, and no worker exits without having consumed
\* one.  A worker that left on a channel-level delivery error, which the
\* design lets end the worker, is set apart, so that a violation shows an
\* exit the design does not provide for.
C1_OneSentinelPerWorker ==
    /\ pubJobs <= numChapters
    /\ pubSentinels <= numWorkers
    /\ ~Publishing => pubJobs = numChapters /\ pubSentinels = numWorkers
    /\ \A w \in Spawned :
          /\ sentinels[w] <= 1
          /\ (wpc[w] = "exited" /\ exitReason[w] # "delivery_error")
                => sentinels[w] = 1

\* C2: once c jobs and w sentinels are published the run completes: every
\* worker exits and the counter reaches c.  Stated on the states from which
\* nothing can raise the counter any more: all workers have exited (none on
\* a delivery error) and the reply queue is drained; there the counter must
\* already be c.
C2_RunCompletes ==
    (/\ ~Publishing
     /\ AllWorkersExited
     /\ \A w \in Spawned : exitReason[w] # "delivery_error"
     /\ replyQ = <<>>)
        => counter = numChapters

\* the tracker's counter against what it consumed
C3_TrackerInv ==
    /\ counter <= numChapters
    /\ (tpc = "stopped") <=> (counter = numChapters)
    /\ repliesAcked = counter + (malformed - MalformedWaiting)

\* a step that takes a payload that is no Chapter off the reply queue
C3_MalformedStep ==
    (tpc = "consuming" /\ replyQ # <<>> /\ ~from_bytes(Head(replyQ)).ok
        /\ replyQ' = Tail(replyQ))
    => (tpc' = "consuming" /\ counter' = counter
        /\ repliesAcked' = repliesAcked + 1)

\* C3: the tracker stops exactly when it has counted c completion records,
\* whatever their arrival order; every delivery it consumed is acknowledged,
\* a payload that is no Chapter is not counted, and handling one leaves the
\* tracker consuming with its counter as it was.
C3_TrackerStopsAtTotal == []C3_TrackerInv /\ [][C3_MalformedStep]_vars

\* C3 witness: the tracker has stopped at c >= 2 after it acknowledged a
\* malformed payload
C3_Witness ==
    /\ tpc = "stopped"
    /\ numChapters >= 2
    /\ repliesAcked > counter

\* C4: a job delivery is acknowledged only after its download_chapter call
\* returned, never while the download is in progress or not yet started, and
\* once the call returned the acknowledgement is due whether or not pages
\* failed.
C4_AckAfterDownload ==
    /\ \A w \in Workers :
          /\ (cur[w] # NoMsg /\ curAcked[w]) => wpc[w] = "acked"
          /\ wpc[w] = "downloaded" => ENABLED AckJob(w)
    /\ \A b \in BagToSet(ackedJobs) :
          CopiesIn(b, ackedJobs) <= CopiesIn(b, okDownloads)

\* C4 witness: a worker has acknowledged a job whose download had failed pages
C4_Witness ==
    \E w \in Workers : wpc[w] = "acked" /\ curAcked[w] /\ dlFailed[w]

\* C5: every job a worker consumed and finished gives exactly one completion
\* record, equal to the job's Chapter, and no record is published for a
\* Chapter that was not a consumed job.
C5_OneCompletionPerJob ==
    /\ \A b \in BagToSet(ackedJobs) :
          /\ CopiesIn(b, ackedJobs) = 1
          /\ CopiesIn(b, completions)
                + Cardinality({w \in Workers : wpc[w] = "acked" /\ cur[w] = b})
             = 1
    /\ \A b \in BagToSet(completions) :
          /\ b \in BagToSet(ackedJobs)
          /\ from_bytes(b).ok
          /\ \E i \in 1..pubJobs : from_bytes(b).chapter = Chapter(i)

\* C5 witness: a completion record was published for a download that had
\* failed pages
C5_Witness ==
    /\ failedReported
    /\ \E w \in Workers : wpc[w] = "idle" /\ sentinels[w] = 0
    /\ BagCardinality(completions) >= 1

\* C6: each worker holds at most one delivered-but-unacknowledged work-queue
\* message; a next delivery reaches it only when the previous one is
\* acknowledged.
C6_OneUnackedPerWorker ==
    \A w \in Workers :
        /\ Len(Unacked(w)) <= 1
        /\ inbox[w] # <<>> => (cur[w] = NoMsg \/ curAcked[w])

\* C6 witness: the next delivery reached a worker that has acknowledged its
\* job and not yet published the completion record
C6_Witness ==
    \E w \in Workers : wpc[w] = "acked" /\ inbox[w] # <<>>

\* positions of the job messages in a sequence of messages
JobsIn(msgs) == {i \in DOMAIN msgs : from_bytes(msgs[i]).ok}

\* C19: no worker ends on a sentinel while a job message waits in the work
\* queue, and every job has been delivered to a worker by the time the last
\* worker has ended.  A worker that took the sentinel is in the loop's exit
\* path and ends at its next step, so the first half is stated there; runs
\* with a channel-level delivery error are set apart, as for C1.
C19_NoJobLeftBehind ==
    (\A w \in Spawned : exitReason[w] # "delivery_error") =>
        /\ \A w \in Spawned :
              (wpc[w] = "leaving" /\ exitReason[w] = "sentinel")
                 => JobsIn(Requeued(w)) = {}
        /\ AllWorkersExited => JobsIn(workQ) = {}

\* a worker whose download_chapter call returned Err is gone: its process has
\* ended, it took no sentinel and holds no message
C21_GoneInv ==
    \A w \in Workers : exitReason[w] = "download_error" =>
        /\ wpc[w] = "exited"
        /\ sentinels[w] = 0
        /\ cur[w] = NoMsg
        /\ inbox[w] = <<>>

\* the step in which download_chapter returns Err to worker w: the process
\* ends from inside the loop, with no ack, no completion record, no sentinel
\* and no basic_cancel; the unacknowledged job goes back to the work queue
C21_ErrStep ==
    \A w \in Workers :
        (exitReason[w] # "download_error" /\ exitReason'[w] = "download_error") =>
            /\ wpc[w] = "downloading"
            /\ wpc'[w] = "exited"
            /\ ~curAcked[w]
            /\ ackedJobs' = ackedJobs
            /\ completions' = completions
            /\ replyQ' = replyQ
            /\ sentinels' = sentinels
            /\ workQ' = <<cur[w]>> \o inbox[w] \o workQ

\* C21: when download_chapter returns Err for a job, the worker ends at once
\* with that error: the job message is not acknowledged, no completion record
\* is published for it, no sentinel is consumed and the consumer is not
\* cancelled.
C21_DownloadErrEndsWorker == []C21_GoneInv /\ [][C21_ErrStep]_vars

\* C21 witness: a worker ended on a download error and its job is back in
\* the work queue
C21_Witness ==
    \E w \in Workers :
        /\ exitReason[w] = "download_error"
        /\ wpc[w] = "exited"
        /\ JobsIn(workQ) # {}

\* ------------------------------------------------- download_chapter claims
\* the pages of the chapter: the indices of the extracted urls
ChapterPages == {p \in Pages : p < NumPages}

\* the pages whose download_file call returned an error
FailedFetches == {p \in ChapterPages : pstate[p] = "done" /\ pres[p].kind # "Ok"}

\* C7: with k urls of which f fetches fail, download_chapter returns Ok with
\* a failed-index list of length exactly f that holds exactly the indices of
\* the failing pages.
C7_FailedListExact ==
    dcpc = "returned" =>
        /\ Len(failed_pages) = Cardinality(FailedFetches)
        /\ {failed_pages[i] : i \in DOMAIN failed_pages} = FailedFetches

\* C8: download_file returns PageDownloadFailed{page_num} when the transport
\* fails and when the server answers with a non-2xx status, and returns Ok
\* only for a 2xx response whose bytes were written to the page's file.
C8_FetcherContract ==
    \A p \in ChapterPages :
        pstate[p] = "done" =>
            /\ phttp[p] \in {"transport_error", "status_other"}
                  => pres[p] = [kind |-> "PageDownloadFailed", page_num |-> p]
            /\ pres[p].kind = "Ok"
                  => /\ phttp[p] = "status_2xx"
                     /\ \E f \in files : f.name = file_name(p)

\* C9: the number of page fetches in flight never exceeds the concurrency
\* bound, for every page count and every order of completions.
C9_InFlightBounded == Cardinality(InFlight) <= ConcurrencyLimit

\* C9 witness: the bound is reached while a page still waits to be started
C9_Witness ==
    /\ Cardinality(InFlight) = ConcurrencyLimit
    /\ nextPage < NumPages

\* C10: a failed fetch aborts neither its siblings nor the chapter: every
\* (index, url) pair is started at most once, nothing else is started, a
\* failure leaves the call running, and the call returns only when each of
\* the k fetches was started once and has finished.
C10_AllPagesFetchedOnce ==
    /\ \A p \in Pages : pstarts[p] <= (IF p \in ChapterPages THEN 1 ELSE 0)
    /\ FailedFetches # {} => dcpc \in {"running", "returned"}
    /\ dcpc = "returned" =>
          /\ \A p \in ChapterPages : pstarts[p] = 1 /\ pstate[p] = "done"
          /\ Len(results) = NumPages

\* C10 witness: the call returned after all its pages finished, although the
\* first fetch to finish failed while a page was still waiting to be started
C10_Witness ==
    /\ dcpc = "returned"
    /\ NumPages > ConcurrencyLimit
    /\ FailedFetches # {}
    /\ results[1].kind # "Ok"

\* the pages whose download_file call returned Ok
FetchedPages == {p \in ChapterPages : pstate[p] = "done" /\ pres[p].kind = "Ok"}

\* C11: the files of the chapter directory do not depend on the order in
\* which the fetches finish: they are exactly one file per fetched page, named
\* by the page's own index (three digits, zero-padded) and holding that
\* page's bytes, and distinct pages have distinct names.
C11_FilesByIndex ==
    /\ files = {[name |-> file_name(p), data |-> <<image_urls[p + 1], phttp[p]>>] :
                   p \in FetchedPages}
    /\ \A p \in ChapterPages : file_name(p) = <<0, 0, p>>
    /\ \A p, q \in ChapterPages : p # q => file_name(p) # file_name(q)

\* C11 witness: the call returned with every page but page 0 on disk, page 0
\* having finished last, after pages of higher index
C11_Witness ==
    /\ dcpc = "returned"
    /\ NumPages >= 3
    /\ results[Len(results)] = [kind |-> "PageDownloadFailed", page_num |-> 0]
    /\ Cardinality(files) = NumPages - 1

\* a worker that took the sentinel is past its loop: it holds no job and its
\* only step left is to cancel its consumer and end
C12_PastLoop ==
    \A w \in Workers : exitReason[w] = "sentinel" =>
        /\ wpc[w] \in {"leaving", "exited"}
        /\ cur[w] = NoMsg
        /\ sentinels[w] = 1
        /\ wpc[w] = "leaving" => ENABLED CancelAndExit(w)

\* what a step may do to a worker that took the sentinel: nothing but end it
C12_SentinelStep ==
    \A w \in Workers : exitReason[w] = "sentinel" =>
        /\ exitReason'[w] = "sentinel"
        /\ cur'[w] = NoMsg
        /\ sentinels'[w] = sentinels[w]
        /\ wpc'[w] \in {wpc[w], "exited"}
        /\ (\A v \in Workers \ {w} : wpc'[v] = wpc[v] \/ exitReason[v] = "sentinel")
              => /\ okDownloads' = okDownloads
                 /\ ackedJobs' = ackedJobs
                 /\ completions' = completions
                 /\ replyQ' = replyQ \/ replyQ' = Tail(replyQ)

\* C12: on the sentinel the worker acknowledges it, leaves the loop, cancels
\* its consumer and ends; from then on it pulls no message, downloads nothing
\* and publishes no completion record, even when the broker pushed it another
\* message in between.
C12_SentinelEndsWorker == []C12_PastLoop /\ [][C12_SentinelStep]_vars

\* C12 witness: a worker that took the sentinel is about to end, a message pushed
\* to it after the sentinel lying unread in its inbox
C12_Witness ==
    \E w \in Workers :
        /\ exitReason[w] = "sentinel"
        /\ wpc[w] = "leaving"
        /\ inbox[w] # <<>>

\* ---------------------------------------------- fetch_chapters_urls claims
\* C13: an anchor without a title, or with an empty one, does not make
\* fetch_chapters_urls abort: the call never panics, and when it returns it
\* returns one Chapter per anchor.
C13_OneChapterPerAnchor ==
    /\ fpc # "panicked"
    /\ fpc = "returned" => Len(chapter_list) = Len(anchors)

\* s sorts before t: byte-wise lexicographic order of strings
LexLess(s, t) ==
    \E i \in 1..(Len(t)) :
       /\ \A j \in 1..(i - 1) : j <= Len(s) /\ s[j] = t[j]
       /\ i > Len(s) \/ s[i] < t[i]

\* chapter number a is less than chapter number b
NumLess(a, b) == a.int < b.int \/ (a.int = b.int /\ a.frac < b.frac)

\* the list gives numbered chapters, the newest first
NewestFirst ==
    /\ \A i \in 1..Len(anchors) : anchors[i].number.kind = "numbered"
    /\ \A i \in 1..(Len(anchors) - 1) :
          NumLess(anchors[i + 1].number, anchors[i].number)

\* C14: for a list that gives its chapters newest first, the Chapters come
\* back in reverse DOM order, hence by increasing chapter number, and their
\* padded titles are in strictly increasing lexical order.
C14_TitlesOrdered ==
    (fpc = "returned" /\ NewestFirst) =>
        /\ \A k \in 1..Len(chapter_list) :
              chapter_list[k].url = <<Len(anchors) + 1 - k>>
        /\ \A k \in 1..(Len(chapter_list) - 1) :
              LexLess(chapter_list[k].title, chapter_list[k + 1].title)

\* ------------------------------------------------------ split_jobs claims
\* the jobs of all batches, one batch after the other
RECURSIVE Flatten(_)
Flatten(bs) == IF bs = <<>> THEN <<>> ELSE Head(bs) \o Flatten(Tail(bs))

\* C20: for a list of n >= 1 jobs and 1 <= num_batches <= n, split_jobs
\* returns exactly num_batches batches, none empty, of sizes that differ by at
\* most one; every job of the input is in exactly one batch, once; inside a
\* batch the jobs are in input order; the input vector is left empty.
C20_SplitPartitions ==
    (Len(jobs_in) >= 1 /\ 1 <= num_batches /\ num_batches <= Len(jobs_in)) =>
        /\ spc \notin {"panicked", "diverged"}
        /\ spc = "returned" =>
              /\ Len(batches) = num_batches
              /\ \A b \in 1..Len(batches) : batches[b] # <<>>
              /\ \A a, b \in 1..Len(batches) :
                    Len(batches[a]) - Len(batches[b]) <= 1
              /\ \A j \in 1..Len(jobs_in) :
                    Cardinality({i \in 1..Len(Flatten(batches)) :
                                    Flatten(batches)[i] = jobs_in[j]}) = 1
              /\ Len(Flatten(batches)) = Len(jobs_in)
              /\ \A b \in 1..Len(batches) : \A i \in 1..(Len(batches[b]) - 1) :
                    batches[b][i] < batches[b][i + 1]
              /\ jobs = <<>>

\* C20 witness: five jobs were split into three batches, two of them with
\* the extra job
C20_Witness ==
    /\ spc = "returned"
    /\ Len(jobs_in) = 5
    /\ num_batches = 3
    /\ Len(batches) = 3

\* ------------------------------------------------ in-process main claims
\* the spawn loop is over: main awaits the tasks, or ended at or after the
\* split_jobs call
DispatchOver == mpc = "join" \/ (mpc = "ended" /\ spc # "unused")

\* C15: for every requested thread count and every non-empty selection of c
\* chapters, main starts exactly min(threads, c) download tasks, and no task
\* is started on an empty batch.
C15_WorkersStarted ==
    /\ \A t \in 1..Len(tasks) : tasks[t].batch # <<>>
    /\ Len(tasks) <= num_threads(arg_threads, n_chapters)
    /\ DispatchOver => Len(tasks) = num_threads(arg_threads, n_chapters)

\* C15 witness: more threads were asked for than chapters selected, and as
\* many tasks as chapters are running
C15_Witness ==
    /\ mpc = "join"
    /\ arg_threads > n_chapters
    /\ Len(tasks) = n_chapters

\* the selected chapters, as a set
Selected == {selected_chapters[i] : i \in 1..Len(selected_chapters)}

\* C16: no job reaches a task before every selected chapter has its output
\* directory; when a directory creation fails, nothing is dispatched.
C16_DirsBeforeDispatch ==
    /\ (spc # "unused" \/ tasks # <<>>) =>
          /\ created_dirs = Selected
          /\ ~mkdir_failed
    /\ mkdir_failed =>
          /\ mpc = "ended"
          /\ exit = "err"
          /\ spc = "unused"
          /\ tasks = <<>>
          /\ total_progress = 0

\* C16 witness: a task is running on a selection of several chapters, each
\* with its directory
C16_Witness ==
    /\ tasks # <<>>
    /\ n_chapters >= 2
    /\ Cardinality(created_dirs) = n_chapters

\* C17: a fatal pre-flight condition (InvalidBookId, a failed request, a crawl
\* that fails or yields no chapter) ends the process with a non-zero exit
\* code after a single attempt, before any selection, directory creation,
\* split or task.
C17_FatalPreflight ==
    fatal # "none" =>
        /\ mpc = "ended"
        /\ exit = "exit_1"
        /\ attempts.title = 1
        /\ attempts.list <= 1
        /\ selected_chapters = <<>>
        /\ n_chapters = 0
        /\ mkdir_next = 0
        /\ created_dirs = {}
        /\ spc = "unused"
        /\ tasks = <<>>

\* C17 witness: the crawl gave no chapter and the process exited with 1
C17_Witness ==
    /\ fatal = "no_chapters"
    /\ exit = "exit_1"

\* chapters the tasks have finished, downloaded or failed
RECURSIVE FinishedChapters(_)
FinishedChapters(ts) ==
    IF ts = <<>> THEN 0 ELSE Head(ts).pos + FinishedChapters(Tail(ts))

\* the progress counter counts the finished chapters, stays within the total
\* and is at the total when the run reports completion
C18_CounterInv ==
    /\ total_progress = FinishedChapters(tasks)
    /\ total_progress <= n_chapters
    /\ exit = "ok" => total_progress = n_chapters

\* a step that changes the counter adds one to it, for one chapter finished
\* by one task
C18_CounterStep ==
    total_progress' # total_progress =>
        /\ total_progress' = total_progress + 1
        /\ Len(tasks') = Len(tasks)
        /\ \E t \in 1..Len(tasks) :
              /\ tasks'[t].pos = tasks[t].pos + 1
              /\ \A u \in 1..Len(tasks) : u # t => tasks'[u] = tasks[u]

\* C18: the progress counter only increases, by exactly one per finished
\* chapter, never exceeds the number of selected chapters, and equals it when
\* the run reports completion, however the tasks interleave.
C18_ProgressCounter == []C18_CounterInv /\ [][C18_CounterStep]_vars

\* C18 witness: the run reported completion after two tasks or more went
\* through their batches, some chapter having failed
C18_Witness ==
    /\ exit = "ok"
    /\ Len(tasks) >= 2
    /\ all_failed_chapters # <<>>
    /\ total_progress = n_chapters

\* the download_chapter call did not give Ok with an empty failed-page list
IsFailure(a) == a.outcome # "ok"

\* the chapters of a sequence of download_chapter calls
RECURSIVE ChaptersOf(_)
ChaptersOf(as) ==
    IF as = <<>> THEN <<>> ELSE <<Head(as).chapter>> \o ChaptersOf(Tail(as))

\* the failed lists of the tasks, one after the other
RECURSIVE FailedLists(_)
FailedLists(ts) ==
    IF ts = <<>> THEN <<>> ELSE Head(ts).failed \o FailedLists(Tail(ts))

\* C22: in download_chapters a failing chapter does not stop the batch: the
\* chapters of the batch are attempted once each, in batch order, up to the
\* last; the failed list holds exactly the chapters whose download returned
\* Err or a non-empty failed-page list, once each; and the report lists the
\* failed lists of all batches together.
C22_BatchGoesOn ==
    /\ \A t \in 1..Len(tasks) :
          /\ ChaptersOf(tasks[t].attempted) = SubSeq(tasks[t].batch, 1, tasks[t].pos)
          /\ tasks[t].failed = ChaptersOf(SelectSeq(tasks[t].attempted, IsFailure))
          /\ tasks[t].pos < Len(tasks[t].batch) => ENABLED TaskChapter(t)
    /\ \A t \in 1..joined : ChaptersOf(tasks[t].attempted) = tasks[t].batch
    /\ all_failed_chapters = FailedLists(SubSeq(tasks, 1, joined))
    /\ exit = "ok" =>
          /\ joined = Len(tasks)
          /\ all_failed_chapters = FailedLists(tasks)

\* C22 witness: the run reported after a task whose first chapter failed
\* with Err went on to download the next chapter of its batch
C22_Witness ==
    /\ exit = "ok"
    /\ \E t \in 1..Len(tasks) :
          /\ Len(tasks[t].batch) >= 2
          /\ tasks[t].attempted[1].outcome = "err"
          /\ tasks[t].attempted[2].outcome = "ok"
          /\ all_failed_chapters # <<>>

\* --------------------------------------------------------- specifications
\* the queue side at rest
QIdle ==
    /\ numChapters = 1
    /\ numWorkers = 1
    /\ dpc = "done"
    /\ pubJobs = 0
    /\ pubSentinels = 0
    /\ workQ = <<>>
    /\ replyQ = <<>>
    /\ wpc = [w \in Workers |-> "unused"]
    /\ inbox = [w \in Workers |-> <<>>]
    /\ cur = [w \in Workers |-> NoMsg]
    /\ curAcked = [w \in Workers |-> FALSE]
    /\ dlFailed = [w \in Workers |-> FALSE]
    /\ sentinels = [w \in Workers |-> 0]
    /\ exitReason = [w \in Workers |-> "none"]
    /\ okDownloads = EmptyBag
    /\ ackedJobs = EmptyBag
    /\ completions = EmptyBag
    /\ failedReported = FALSE
    /\ tpc = "stopped"
    /\ counter = 0
    /\ repliesAcked = 0
    /\ malformed = 0

\* no download_chapter call is modelled
CChapterIdle == imgs = <<>> /\ CIdle

Init == QInit /\ CChapterIdle /\ KIdle /\ SIdle /\ MIdle

Next == QNext

Spec == Init /\ [][Next]_vars

\* the protocol with unexpected payloads arriving on the reply queue
NextReplies == QNext \/ MalformedArrives

SpecReplies == Init /\ [][NextReplies]_vars

\* a download_chapter call on its own
InitChapter == CInit /\ QIdle /\ KIdle /\ SIdle /\ MIdle

NextChapter == CNext

SpecChapter == InitChapter /\ [][NextChapter]_vars

\* a fetch_chapters_urls call on its own
InitCrawler == KInit /\ QIdle /\ CChapterIdle /\ SIdle /\ MIdle

NextCrawler == KNext

SpecCrawler == InitCrawler /\ [][NextCrawler]_vars

\* a split_jobs call on its own
InitSplit == SInit /\ QIdle /\ CChapterIdle /\ KIdle /\ MIdle

NextSplit == SNext

SpecSplit == InitSplit /\ [][NextSplit]_vars

\* a run of the in-process downloader
InitMain == MInit /\ SIdle /\ QIdle /\ CChapterIdle /\ KIdle

NextMain == MNext \/ SNext

SpecMain == InitMain /\ [][NextMain]_vars

====
